---- MODULE Spec2Model ----
(***************************************************************************)
(* Quote rotation of daily_stoic, document variant (src/src/quote_manager.py): *)
(* load_quotes_from_json, select_quote, update_quote_usage and the          *)
(* load -> select -> record cycle of the module's __main__ block.           *)
(*                                                                         *)
(* JSON values are encoded uniformly so that any two of them compare:       *)
(*   a list element is a record [isdict, text, author, source, tsk, ts];    *)
(*   a string-valued key holds its string, NoKey when the key is absent     *)
(*   and Null when it holds JSON null;                                      *)
(*   last_used_timestamp is tsk = "absent" (no key), "other" (a value that  *)
(*   is not int/float) or "num" with the integer ts.                        *)
(* The persisted file is [kind, shape, quotes]: kind says whether it can be *)
(* opened and parsed, shape what the parsed document looks like.            *)
(***************************************************************************)
EXTENDS Integers, Sequences, FiniteSets, TLC

VARIABLES file, now, pc, loadr, selr, updr, history, db, wf, procs

vars == <<file, now, pc, loadr, selr, updr, history, db, wf, procs>>

----------------------------------------------------------------------------
(* Bounds *)

MaxLen == 3
MaxUpdLen == 2
MaxRecords == 3
MaxTs == 2
TicksPerSec == 2
MaxSeconds == 3
MaxDelay == 1

StartClock == MaxTs * TicksPerSec
MaxClock == StartClock + MaxSeconds * TicksPerSec

----------------------------------------------------------------------------
(* JSON encoding *)

NoKey == "<nokey>"
Null == "<null>"
None == 0

Quote(text, author, source, tsk, ts) ==
    [isdict |-> TRUE, text |-> text, author |-> author, source |-> source,
     tsk |-> tsk, ts |-> ts]

NonDict ==
    [isdict |-> FALSE, text |-> NoKey, author |-> NoKey, source |-> NoKey,
     tsk |-> "absent", ts |-> 0]

Document(shape, quotes) == [kind |-> "json", shape |-> shape, quotes |-> quotes]

Unparsed(kind) == [kind |-> kind, shape |-> "none", quotes |-> <<>>]

\* dict.get(key): the value, or None when the key is absent
Get(q, key) == IF q[key] = NoKey THEN Null ELSE q[key]

Min(S) == CHOOSE x \in S : \A y \in S : x <= y

Max(S) == CHOOSE x \in S : \A y \in S : x >= y

SeqsUpTo(S, n) == UNION {[1..k -> S] : k \in 0..n}

----------------------------------------------------------------------------
(* load_quotes_from_json *)

LoadResult(exc, ret) == [called |-> TRUE, exc |-> exc, ret |-> ret]

\* the for loop body: a missing or non-numeric timestamp becomes 0
coerce_timestamp(q) ==
    IF q.tsk = "num" THEN q ELSE [q EXCEPT !.tsk = "num", !.ts = 0]

\* the warning of the non-numeric branch slices quote.get('text', 'N/A'):
\* a present text that is not a string (null) raises TypeError
warning_raises(q) == q.tsk = "other" /\ q.text = Null

\* the behaviour the docstring's Returns section describes: an empty list
\* when the file is not found or is not valid JSON
load_quotes_from_json_swallow(f) ==
    IF f.kind # "json" THEN LoadResult("", <<>>)
    ELSE IF f.shape = "nondict" THEN LoadResult("AttributeError", <<>>)
    ELSE IF f.shape # "list" THEN LoadResult("", <<>>)
    ELSE IF \E i \in DOMAIN f.quotes : ~f.quotes[i].isdict
         THEN LoadResult("", <<>>)
    ELSE IF \E i \in DOMAIN f.quotes : warning_raises(f.quotes[i])
         THEN LoadResult("TypeError", <<>>)
    ELSE LoadResult("", [i \in DOMAIN f.quotes |-> coerce_timestamp(f.quotes[i])])

load_quotes_from_json(f) ==
    IF f.kind = "absent" THEN LoadResult("FileNotFoundError", <<>>)
    ELSE IF f.kind = "unreadable" THEN LoadResult("PermissionError", <<>>)
    ELSE IF f.kind = "invalid" THEN LoadResult("JSONDecodeError", <<>>)
    ELSE IF f.shape = "nondict" THEN LoadResult("AttributeError", <<>>)
    ELSE IF f.shape # "list" THEN LoadResult("", <<>>)
    ELSE IF \E i \in DOMAIN f.quotes : ~f.quotes[i].isdict
         THEN LoadResult("", <<>>)
    ELSE IF \E i \in DOMAIN f.quotes : warning_raises(f.quotes[i])
         THEN LoadResult("TypeError", <<>>)
    ELSE LoadResult("", [i \in DOMAIN f.quotes |-> coerce_timestamp(f.quotes[i])])

----------------------------------------------------------------------------
(* select_quote: the result is the position of the returned record in the  *)
(* argument list (None = 0); possible is the support of random.choice.     *)

SelectResult(exc, possible) == [exc |-> exc, possible |-> possible]

is_valid(q) == q.isdict /\ q.tsk = "num"

valid_quotes(quotes) == {i \in DOMAIN quotes : is_valid(quotes[i])}

min_timestamp_max(quotes, valid) == Max({quotes[i].ts : i \in valid})

min_timestamp(quotes, valid) == Min({quotes[i].ts : i \in valid})

eligible_quotes(quotes, valid, m) == {i \in valid : quotes[i].ts = m}

random_choice_first(S) == {Min(S)}

random_choice(S) == S

select_quote_unguarded(quotes) ==
    IF quotes = <<>> THEN SelectResult("", {None})
    ELSE LET valid == valid_quotes(quotes) IN
         IF valid = {} THEN SelectResult("ValueError", {None})
         ELSE LET m == min_timestamp(quotes, valid) IN
              SelectResult("", random_choice(eligible_quotes(quotes, valid, m)))

select_quote(quotes) ==
    IF quotes = <<>> THEN SelectResult("", {None})
    ELSE LET valid == valid_quotes(quotes) IN
         IF valid = {} THEN SelectResult("", {None})
         ELSE LET m == min_timestamp(quotes, valid) IN
              SelectResult("", random_choice(eligible_quotes(quotes, valid, m)))

----------------------------------------------------------------------------
(* update_quote_usage *)

NoneArg == [kind |-> "none", text |-> NoKey, author |-> NoKey]

OtherArg == [kind |-> "other", text |-> NoKey, author |-> NoKey]

DictArg(text, author) == [kind |-> "dict", text |-> text, author |-> author]

\* the record select_quote returned, passed on as selected_quote
AsArg(q) == DictArg(q.text, q.author)

UpdateResult(ret, exc, newfile, stamp, idx) ==
    [ret |-> ret, exc |-> exc, file |-> newfile, stamp |-> stamp, idx |-> idx]

invalid_selected(sel) ==
    sel.kind # "dict" \/ sel.text = NoKey \/ sel.author = NoKey

\* int(time.time())
current_timestamp(clock) == clock \div TicksPerSec

matches(quote, sel) ==
    /\ quote.isdict
    /\ Get(quote, "text") = sel.text
    /\ Get(quote, "author") = sel.author

\* the record at the position the selection had in the loaded list, here
\* the first one, whatever its text and author
find_quote_position(quotes, sel) == IF quotes = <<>> THEN 0 ELSE 1

\* the enumerate loop with its break: the first matching position, or 0
find_quote(quotes, sel) ==
    LET hits == {i \in DOMAIN quotes : matches(quotes[i], sel)} IN
    IF hits = {} THEN 0 ELSE Min(hits)

\* writing back the records as load_quotes_from_json returns them, every
\* missing or non-numeric timestamp replaced by 0
set_timestamp_loaded(quotes, i, t) ==
    [j \in DOMAIN quotes |->
        IF j = i THEN [quotes[j] EXCEPT !.tsk = "num", !.ts = t]
        ELSE IF quotes[j].isdict THEN coerce_timestamp(quotes[j])
        ELSE quotes[j]]

\* the assignment made on a copy of the record: the list written back is
\* the list that was read
set_timestamp_copy(quotes, i, t) == quotes

set_timestamp(quotes, i, t) ==
    [quotes EXCEPT ![i] = [@ EXCEPT !.tsk = "num", !.ts = t]]

\* without the final "except Exception": the AttributeError raised by the
\* error message for a document that is not an object escapes
update_quote_usage_uncaught(sel, f, clock, io) ==
    LET Fail == UpdateResult(FALSE, "", f, 0, 0) IN
    IF invalid_selected(sel) THEN Fail
    ELSE IF f.kind # "json" THEN Fail
    ELSE IF f.shape = "nondict" THEN UpdateResult(FALSE, "AttributeError", f, 0, 0)
    ELSE IF f.shape # "list" THEN Fail
    ELSE LET t == current_timestamp(clock)
             i == find_quote(f.quotes, sel) IN
         IF i = 0 THEN Fail
         ELSE IF io = "open_error" THEN Fail
         ELSE IF io = "write_error"
              THEN UpdateResult(FALSE, "", Unparsed("invalid"), t, i)
         ELSE UpdateResult(TRUE, "",
                           Document("list", set_timestamp(f.quotes, i, t)), t, i)

\* clock: the time at which time.time() is read; io: the outcome of the
\* write-back ("ok", "open_error": open(..., 'w') fails, "write_error":
\* the file was truncated and json.dump fails)
update_quote_usage(sel, f, clock, io) ==
    LET Fail == UpdateResult(FALSE, "", f, 0, 0) IN
    IF invalid_selected(sel) THEN Fail
    ELSE IF f.kind # "json" THEN Fail
    ELSE IF f.shape # "list" THEN Fail
    ELSE LET t == current_timestamp(clock)
             i == find_quote(f.quotes, sel) IN
         IF i = 0 THEN Fail
         ELSE IF io = "open_error" THEN Fail
         ELSE IF io = "write_error"
              THEN UpdateResult(FALSE, "", Unparsed("invalid"), t, i)
         ELSE UpdateResult(TRUE, "",
                           Document("list", set_timestamp(f.quotes, i, t)), t, i)

----------------------------------------------------------------------------
(* State shared by all specifications: the persisted file, the clock (in   *)
(* ticks of 1/TicksPerSec second), and the outcome of the last call of     *)
(* each function.                                                          *)

NoLoad == [called |-> FALSE, exc |-> "", ret |-> <<>>]

NoSelect == [called |-> FALSE, arg |-> <<>>, exc |-> "", possible |-> {}, ret |-> None]

NoUpdate ==
    [called |-> FALSE, arg |-> NoneArg, pre |-> Unparsed("absent"), start |-> 0,
     ret |-> FALSE, exc |-> "", stamp |-> 0, idx |-> 0]

Selected(arg, res, r) ==
    [called |-> TRUE, arg |-> arg, exc |-> res.exc, possible |-> res.possible, ret |-> r]

Updated(arg, f, start, res) ==
    [called |-> TRUE, arg |-> arg, pre |-> f, start |-> start, ret |-> res.ret,
     exc |-> res.exc, stamp |-> res.stamp, idx |-> res.idx]

IoOutcomes == {"ok", "open_error", "write_error"}

\* the relational store, the workflow of main.py and the overlapping
\* invocations, where a specification does not run them
NoDb == [rows |-> <<>>, dflt |-> 0, op |-> "none"]

NoWf == [pc |-> "off"]

NoProcs == <<>>

\* the clock is read by update_quote_usage only: time that passes during
\* load_quotes_from_json and select_quote counts as passing before them
Tick ==
    /\ pc \in {"api", "load"}
    /\ now < MaxClock
    /\ now' = now + 1
    /\ UNCHANGED <<file, pc, loadr, selr, updr, history, db, wf, procs>>

----------------------------------------------------------------------------
(* SpecSelect: select_quote applied to arbitrary lists *)

SelItems ==
    {NonDict, Quote("t1", "a1", NoKey, "absent", 0), Quote("t1", "a1", NoKey, "other", 0)}
    \cup {Quote("t1", "a1", NoKey, "num", t) : t \in 0..MaxTs}

SelLists == SeqsUpTo(SelItems, MaxLen)

CallSelect(quotes) ==
    /\ LET res == select_quote(quotes) IN
       \E r \in res.possible : selr' = Selected(quotes, res, r)
    /\ UNCHANGED <<file, now, pc, loadr, updr, history, db, wf, procs>>

InitSelect ==
    /\ file = Unparsed("absent")
    /\ now = StartClock
    /\ pc = "api"
    /\ loadr = NoLoad
    /\ selr = NoSelect
    /\ updr = NoUpdate
    /\ history = <<>>
    /\ db = NoDb
    /\ wf = NoWf
    /\ procs = NoProcs

NextSelect == \E quotes \in SelLists : CallSelect(quotes)

SpecSelect == InitSelect /\ [][NextSelect]_vars

----------------------------------------------------------------------------
(* Properties of select_quote (SpecSelect) *)

Numeric(q) == q.isdict /\ q.tsk = "num"

HasNumeric(quotes) == \E i \in DOMAIN quotes : Numeric(quotes[i])

IsMinimum(quotes, i) ==
    /\ Numeric(quotes[i])
    /\ \A j \in DOMAIN quotes : Numeric(quotes[j]) => quotes[i].ts <= quotes[j].ts

UniqueMinimum(quotes, i) ==
    /\ Numeric(quotes[i])
    /\ \A j \in DOMAIN quotes \ {i} : Numeric(quotes[j]) => quotes[i].ts < quotes[j].ts

\* C2: on a non-empty list with at least one numeric last_used_timestamp,
\* select_quote returns a record of the list with a numeric timestamp equal
\* to the minimum over the valid records, never an invalid record; when one
\* record alone holds the minimum, that record is returned.
C2_SelectReturnsMinimum ==
    (selr.called /\ HasNumeric(selr.arg)) =>
        /\ selr.exc = ""
        /\ selr.ret \in DOMAIN selr.arg
        /\ IsMinimum(selr.arg, selr.ret)
        /\ \A i \in DOMAIN selr.arg : UniqueMinimum(selr.arg, i) => selr.ret = i

C2_Witness ==
    /\ selr.called
    /\ \E i \in DOMAIN selr.arg : ~Numeric(selr.arg[i])
    /\ selr.ret > 1
    /\ selr.ret \in DOMAIN selr.arg
    /\ UniqueMinimum(selr.arg, selr.ret)

\* C3: the set of possible results of select_quote is exactly the set of
\* records tied at the minimum timestamp; for the values [1, 2, 1] the first
\* and the third record are possible and the second is not.
C3_PossibleIsEligibleSet ==
    (selr.called /\ HasNumeric(selr.arg)) =>
        /\ selr.possible = {i \in DOMAIN selr.arg : IsMinimum(selr.arg, i)}
        /\ selr.ret \in selr.possible

TieExample ==
    <<Quote("t1", "a1", NoKey, "num", 1), Quote("t1", "a1", NoKey, "num", 2),
      Quote("t1", "a1", NoKey, "num", 1)>>

C3_Witness ==
    /\ selr.called
    /\ selr.arg = TieExample
    /\ selr.possible = {1, 3}
    /\ selr.ret = 3

NoTimestampExample ==
    <<Quote("t1", "a1", NoKey, "absent", 0), NonDict, NonDict>>

\* C4: select_quote returns None and raises nothing when its argument is the
\* empty list or holds no dict with a numeric last_used_timestamp.
C4_SelectNoneOnInvalid ==
    (selr.called /\ ~HasNumeric(selr.arg)) =>
        /\ selr.ret = None
        /\ selr.possible = {None}
        /\ selr.exc = ""

C4_Witness ==
    /\ selr.called
    /\ selr.arg = NoTimestampExample
    /\ selr.ret = None
    /\ selr.exc = ""

----------------------------------------------------------------------------
(* SpecLoad: load_quotes_from_json applied to arbitrary files, and          *)
(* select_quote applied to what it returned                                 *)

LoadItems ==
    {NonDict}
    \cup {Quote(text, "a1", NoKey, "absent", 0) : text \in {"t1", Null, NoKey}}
    \cup {Quote(text, "a1", NoKey, "other", 0) : text \in {"t1", Null, NoKey}}
    \cup {Quote(text, "a1", NoKey, "num", t) : text \in {"t1", Null, NoKey}, t \in 0..MaxTs}

LoadFiles ==
    {Unparsed("absent"), Unparsed("unreadable"), Unparsed("invalid")}
    \cup {Document(shape, <<>>) : shape \in {"nondict", "nokey", "notlist"}}
    \cup {Document("list", quotes) : quotes \in SeqsUpTo(LoadItems, MaxLen)}

CallLoad ==
    /\ loadr' = load_quotes_from_json(file)
    /\ selr' = NoSelect
    /\ UNCHANGED <<file, now, pc, updr, history, db, wf, procs>>

SelectLoaded ==
    /\ loadr.called
    /\ loadr.exc = ""
    /\ LET res == select_quote(loadr.ret) IN
       \E r \in res.possible : selr' = Selected(loadr.ret, res, r)
    /\ UNCHANGED <<file, now, pc, loadr, updr, history, db, wf, procs>>

InitLoad ==
    /\ file \in LoadFiles
    /\ now = StartClock
    /\ pc = "api"
    /\ loadr = NoLoad
    /\ selr = NoSelect
    /\ updr = NoUpdate
    /\ history = <<>>
    /\ db = NoDb
    /\ wf = NoWf
    /\ procs = NoProcs

NextLoad == CallLoad \/ SelectLoaded

SpecLoad == InitLoad /\ [][NextLoad]_vars

----------------------------------------------------------------------------
(* Properties of load_quotes_from_json (SpecLoad) *)

Returned == loadr.called /\ loadr.exc = ""

Raised == loadr.called /\ loadr.exc # ""

\* C7: a load of a file that is absent, unreadable or not valid JSON is
\* caught inside load_quotes_from_json and comes back as an empty result;
\* nothing is raised to the caller.
C7_LoadNeverRaises ==
    (loadr.called /\ file.kind # "json") => (loadr.exc = "" /\ loadr.ret = <<>>)

Malformed(f) ==
    /\ f.kind = "json"
    /\ \/ f.shape # "list"
       \/ \E i \in DOMAIN f.quotes : ~f.quotes[i].isdict

\* C9: when the document is not an object, lacks the "quotes" key, holds a
\* "quotes" that is not a list, or holds a list with an element that is not
\* an object, load_quotes_from_json returns the empty list.
C9_MalformedGivesEmptyList ==
    (loadr.called /\ Malformed(file)) => (Returned /\ loadr.ret = <<>>)

WellFormed(f) ==
    /\ f.kind = "json"
    /\ f.shape = "list"
    /\ \A i \in DOMAIN f.quotes : f.quotes[i].isdict

\* C10: every record of a list of objects is returned by
\* load_quotes_from_json with a numeric last_used_timestamp: a missing or
\* non-numeric timestamp is kept as 0, a numeric one keeps its value; and
\* select_quote on a non-empty load result does not return None.
C10_LoadCoercesTimestamps ==
    /\ (loadr.called /\ WellFormed(file)) =>
          /\ Returned
          /\ Len(loadr.ret) = Len(file.quotes)
          /\ \A i \in DOMAIN file.quotes :
                /\ Numeric(loadr.ret[i])
                /\ loadr.ret[i].text = file.quotes[i].text
                /\ loadr.ret[i].author = file.quotes[i].author
                /\ loadr.ret[i].ts =
                      IF file.quotes[i].tsk = "num" THEN file.quotes[i].ts ELSE 0
    /\ (selr.called /\ selr.arg # <<>>) => selr.ret # None

----------------------------------------------------------------------------
(* SpecUpdate: one call of update_quote_usage with an arbitrary argument on *)
(* an arbitrary file, at an arbitrary time                                  *)

UpdKeys == {<<"t1", "a1">>, <<"t1", "a2">>, <<"t2", "a1">>, <<NoKey, "a1">>}

SourceOf(key) == IF key = <<"t1", "a1">> THEN "s1" ELSE NoKey

UpdItems ==
    {NonDict}
    \cup {Quote(k[1], k[2], SourceOf(k), tsk, 0) : k \in UpdKeys, tsk \in {"absent", "other"}}
    \cup {Quote(k[1], k[2], SourceOf(k), "num", t) : k \in UpdKeys, t \in {0, MaxTs}}

UpdFiles ==
    {Unparsed("absent"), Unparsed("unreadable"), Unparsed("invalid")}
    \cup {Document(shape, <<>>) : shape \in {"nondict", "nokey", "notlist"}}
    \cup {Document("list", quotes) : quotes \in SeqsUpTo(UpdItems, MaxUpdLen)}

UpdArgs ==
    {NoneArg, OtherArg}
    \cup {DictArg(text, author) : text \in {NoKey, Null, "t1", "t2"},
                                  author \in {NoKey, "a1", "a2"}}

\* d: the time that passes between the start of the call and time.time()
CallUpdate(sel, d, io) ==
    /\ ~updr.called
    /\ now + d <= MaxClock
    /\ LET res == update_quote_usage(sel, file, now + d, io) IN
       /\ file' = res.file
       /\ updr' = Updated(sel, file, now, res)
    /\ now' = now + d
    /\ UNCHANGED <<pc, loadr, selr, history, db, wf, procs>>

InitUpdate ==
    /\ file \in UpdFiles
    /\ now = StartClock
    /\ pc = "api"
    /\ loadr = NoLoad
    /\ selr = NoSelect
    /\ updr = NoUpdate
    /\ history = <<>>
    /\ db = NoDb
    /\ wf = NoWf
    /\ procs = NoProcs

NextUpdate ==
    \/ Tick
    \/ \E sel \in UpdArgs, d \in 0..MaxDelay, io \in IoOutcomes : CallUpdate(sel, d, io)

SpecUpdate == InitUpdate /\ [][NextUpdate]_vars

----------------------------------------------------------------------------
(* Properties of update_quote_usage (SpecUpdate) *)

BadArgument(sel) == sel.kind # "dict" \/ sel.text = NoKey \/ sel.author = NoKey

SameIdentity(q, sel) ==
    /\ q.isdict
    /\ (IF q.text = NoKey THEN Null ELSE q.text) = sel.text
    /\ (IF q.author = NoKey THEN Null ELSE q.author) = sel.author

NotFound(f, sel) ==
    /\ ~BadArgument(sel)
    /\ f.kind = "json"
    /\ f.shape = "list"
    /\ \A i \in DOMAIN f.quotes : ~SameIdentity(f.quotes[i], sel)

\* C6: update_quote_usage lets no exception escape; it returns False for a
\* None or incomplete selected quote, a missing file, a document that is not
\* valid JSON or not {"quotes": [...]}, and when no persisted record has the
\* selected (text, author); in that last case the file is not written.
C6_UpdateFailsCleanly ==
    updr.called =>
        /\ updr.exc = ""
        /\ BadArgument(updr.arg) => ~updr.ret
        /\ updr.pre.kind # "json" => ~updr.ret
        /\ (updr.pre.kind = "json" /\ updr.pre.shape # "list") => ~updr.ret
        /\ NotFound(updr.pre, updr.arg) => (~updr.ret /\ file = updr.pre)

C6_Witness ==
    /\ updr.called
    /\ NotFound(updr.pre, updr.arg)
    /\ Len(updr.pre.quotes) > 0
    /\ \E i \in DOMAIN updr.pre.quotes : updr.pre.quotes[i].text = updr.arg.text
    /\ ~updr.ret
    /\ file = updr.pre

----------------------------------------------------------------------------
(* Spec: sequential invocations of the load -> select -> record cycle of    *)
(* the __main__ block; each invocation starts again at "load".  history     *)
(* holds the latest consecutive cycles whose update returned True, at most  *)
(* as many as the store has records: the position select_quote returned and *)
(* whether the timestamp written was later than every timestamp stored.     *)

CycleKeys == <<<<"t1", "a1">>, <<"t1", "a2">>, <<"t2", "a1">>, <<"t2", "a2">>>>

\* the identities of a store of n records: pairwise distinct, or the last
\* record a duplicate of the first
KeyLayouts(n) ==
    {[i \in 1..n |-> CycleKeys[i]],
     [i \in 1..n |-> IF i = n THEN CycleKeys[1] ELSE CycleKeys[i]]}

CycleStamps ==
    {[tsk |-> "absent", ts |-> 0]} \cup {[tsk |-> "num", ts |-> t] : t \in {0, MaxTs}}

CycleLists(n) ==
    {[i \in 1..n |-> Quote(keys[i][1], keys[i][2], SourceOf(keys[i]),
                           stamps[i].tsk, stamps[i].ts)] :
        keys \in KeyLayouts(n), stamps \in [1..n -> CycleStamps]}

CycleFiles ==
    {Unparsed("absent"), Unparsed("invalid"), Document("nondict", <<>>),
     Document("nokey", <<>>)}
    \cup {Document("list", quotes) : quotes \in UNION {CycleLists(n) : n \in 0..MaxRecords}}

LastN(s, n) == IF Len(s) <= n THEN s ELSE SubSeq(s, Len(s) - n + 1, Len(s))

Fresh(f, t) == \A i \in DOMAIN f.quotes : coerce_timestamp(f.quotes[i]).ts < t

Load ==
    /\ pc = "load"
    /\ LET res == load_quotes_from_json(file) IN
       /\ loadr' = res
       /\ pc' = IF res.exc = "" /\ res.ret # <<>> THEN "select" ELSE "load"
    /\ selr' = NoSelect
    /\ UNCHANGED <<file, now, updr, history, db, wf, procs>>

Select ==
    /\ pc = "select"
    /\ LET res == select_quote(loadr.ret) IN
       \E r \in res.possible :
          /\ selr' = Selected(loadr.ret, res, r)
          /\ pc' = IF r # None THEN "record" ELSE "load"
    /\ UNCHANGED <<file, now, loadr, updr, history, db, wf, procs>>

Record(d, io) ==
    /\ pc = "record"
    /\ now + d <= MaxClock
    /\ LET sel == AsArg(loadr.ret[selr.ret])
           res == update_quote_usage(sel, file, now + d, io) IN
       /\ file' = res.file
       /\ updr' = Updated(sel, file, now, res)
       /\ history' =
             IF res.ret
             THEN LastN(Append(history, [sel |-> selr.ret, fresh |-> Fresh(file, res.stamp)]),
                        Len(file.quotes))
             ELSE <<>>
    /\ now' = now + d
    /\ pc' = "load"
    /\ loadr' = NoLoad
    /\ selr' = NoSelect
    /\ UNCHANGED <<db, wf, procs>>

Init ==
    /\ file \in CycleFiles
    /\ now = StartClock
    /\ pc = "load"
    /\ loadr = NoLoad
    /\ selr = NoSelect
    /\ updr = NoUpdate
    /\ history = <<>>
    /\ db = NoDb
    /\ wf = NoWf
    /\ procs = NoProcs

Next ==
    \/ Tick
    \/ Load
    \/ Select
    \/ \E d \in 0..MaxDelay, io \in IoOutcomes : Record(d, io)

Spec == Init /\ [][Next]_vars

----------------------------------------------------------------------------
(* Properties of the cycle (Spec) *)

DistinctKeys(quotes) ==
    \A i, j \in DOMAIN quotes :
        i # j => <<quotes[i].text, quotes[i].author>> # <<quotes[j].text, quotes[j].author>>

FullWindow ==
    /\ WellFormed(file)
    /\ DistinctKeys(file.quotes)
    /\ Len(file.quotes) > 0
    /\ Len(history) = Len(file.quotes)

NoRepeat == \A i, j \in DOMAIN history : i # j => history[i].sel # history[j].sel

\* C1 as stated: over a store of N records with pairwise distinct
\* (text, author), any N consecutive successful cycles select N distinct
\* records, whatever the store held at the start.
C1_RotationFromAnyState == FullWindow => NoRepeat

\* C1 amended: over a store of N records with pairwise distinct
\* (text, author), any N consecutive successful cycles select N distinct
\* records, provided each of them writes a timestamp (whole clock seconds)
\* that is later than every timestamp the store holds at that moment.
C1_RotationWhenClockAdvances ==
    (FullWindow /\ \A i \in DOMAIN history : history[i].fresh) => NoRepeat

C1_Witness ==
    /\ FullWindow
    /\ Len(history) = 3
    /\ \A i \in DOMAIN history : history[i].fresh
    /\ NoRepeat

Marked == updr.called /\ updr.ret

ReloadedTs == load_quotes_from_json(file).ret[updr.idx].ts

PreviousTs == coerce_timestamp(updr.pre.quotes[updr.idx]).ts

StartSecond == updr.start \div TicksPerSec

\* C5 as stated: after update_quote_usage returns True for R, the reloaded
\* last_used_timestamp of R is strictly greater than its value before the
\* call and not earlier than the time at which the call started.
C5_StrictlyLaterThanBefore ==
    Marked =>
        /\ ReloadedTs > PreviousTs
        /\ ReloadedTs * TicksPerSec >= updr.start

\* C5 amended: after update_quote_usage returns True for R, the reloaded
\* last_used_timestamp of R is the clock in whole seconds as read during the
\* call: it is not earlier than the start of the call truncated to whole
\* seconds and, when R's previous value is not in the future, not smaller
\* than that value and strictly greater if that value is from an earlier
\* second.
C5_WholeSecondOfTheCall ==
    Marked =>
        /\ ReloadedTs = updr.stamp
        /\ ReloadedTs >= StartSecond
        /\ ReloadedTs * TicksPerSec <= now
        /\ PreviousTs <= StartSecond => ReloadedTs >= PreviousTs
        /\ PreviousTs < StartSecond => ReloadedTs > PreviousTs

C5_Witness ==
    /\ Marked
    /\ Len(history) >= 2
    /\ history[Len(history)].sel = history[Len(history) - 1].sel
    /\ ReloadedTs = PreviousTs
    /\ ReloadedTs > 0

\* ---------------------------------------------------------------------
\* The relational store of database.py.  The table is the sequence of its
\* rows in insertion order; the schema (columns, the primary key and
\* UNIQUE(quote_text, author)) is the one the specification gives, since
\* no CREATE TABLE statement is part of the sources.
\* ---------------------------------------------------------------------

MaxRows == 2

MaxDbTicks == 1

Row(id, text, author, source, used, date) ==
    [quote_id |-> id, quote_text |-> text, author |-> author,
     source |-> source, is_used_in_current_cycle |-> used,
     last_used_date |-> date]

\* SQL NULL in an INTEGER column, and in the TEXT column of the date
NullInt == 0 - 1

NullDate == [iso |-> NullInt]

\* value of a column the INSERT statement does not name: the schema names
\* the type of is_used_in_current_cycle, not its default
UsedDefaults == {NullInt, 0}

DbResult(rows, ret, exc) == [rows |-> rows, ret |-> ret, exc |-> exc]

RowIds(rows) == {rows[i].quote_id : i \in 1..Len(rows)}

\* INTEGER PRIMARY KEY: the next rowid is one more than the largest one
lastrowid(rows) == IF rows = <<>> THEN 1 ELSE Max(RowIds(rows)) + 1

\* UNIQUE(quote_text, author)
unique_constraint_failed(rows, data) ==
    \E i \in 1..Len(rows) :
        /\ rows[i].quote_text = data.quote_text
        /\ rows[i].author = data.author

insert(rows, data, dflt) ==
    IF unique_constraint_failed(rows, data)
    THEN DbResult(rows, None, "IntegrityError")
    ELSE DbResult(Append(rows, Row(lastrowid(rows), data.quote_text,
                                   data.author, data.source, dflt,
                                   NullDate)),
                  lastrowid(rows), "")

\* SELECT quote_id FROM quotes WHERE quote_text = ? AND author = ?
fetch_quote_id(rows, text, author) ==
    LET found == {i \in 1..Len(rows) :
                     rows[i].quote_text = text /\ rows[i].author = author}
    IN  IF found = {} THEN None ELSE rows[Min(found)].quote_id

add_quote_zero(rows, text, author, source, dflt) ==
    LET data == [quote_text |-> text, author |-> author,
                 source |-> IF source \in {Null, ""} THEN Null ELSE source]
        r == insert(rows, data, dflt)
    IN  IF r.exc = "IntegrityError" THEN DbResult(rows, 0, "") ELSE r

add_quote(rows, text, author, source, dflt) ==
    LET data == [quote_text |-> text, author |-> author,
                 source |-> IF source \in {Null, ""} THEN Null ELSE source]
        r == insert(rows, data, dflt)
    IN  IF r.exc = "IntegrityError"
        THEN DbResult(rows, fetch_quote_id(rows, text, author), "")
        ELSE r

\* datetime.now().isoformat(): the text of the clock reading
isoformat(clock) == [iso |-> clock]

\* the UPDATE statement without its WHERE clause
update_all(rows, data, id) ==
    DbResult([i \in 1..Len(rows) |->
                 [rows[i] EXCEPT
                     !.is_used_in_current_cycle = data.is_used_in_current_cycle,
                     !.last_used_date = data.last_used_date]],
             Len(rows), "")

update(rows, data, id) ==
    LET hit == {i \in 1..Len(rows) : rows[i].quote_id = id}
    IN  DbResult([i \in 1..Len(rows) |->
                     IF i \in hit
                     THEN [rows[i] EXCEPT
                             !.is_used_in_current_cycle =
                                 data.is_used_in_current_cycle,
                             !.last_used_date = data.last_used_date]
                     ELSE rows[i]],
                 Cardinality(hit), "")

mark_quote_as_used(rows, id, clock) ==
    LET r == update(rows, [is_used_in_current_cycle |-> 1,
                           last_used_date |-> isoformat(clock)], id)
    IN  DbResult(r.rows, r.ret > 0, "")

reset_cycle_noop(rows) == DbResult(rows, Len(rows), "")

reset_cycle(rows) ==
    DbResult([i \in 1..Len(rows) |->
                 [rows[i] EXCEPT !.is_used_in_current_cycle = 0]],
             Len(rows), "")

count_quotes(rows) ==
    [total  |-> Len(rows),
     used   |-> Cardinality({i \in 1..Len(rows) :
                               rows[i].is_used_in_current_cycle = 1}),
     unused |-> Cardinality({i \in 1..Len(rows) :
                               rows[i].is_used_in_current_cycle = 0})]

\* ---- the specification SpecDb: calls on one connection ----
\* db.marked: the quote_ids mark_quote_as_used returned True for since the
\* last reset_cycle

DbPairs == {<<"t1", "a1">>, <<"t1", "a2">>, <<"t2", "a1">>}

DbSources == {Null, "s1"}

DbIds == 1..MaxRows

DbCall(name, arg, before, r) ==
    [name |-> name, arg |-> arg, before |-> before,
     ret |-> r.ret, exc |-> r.exc]

AddQuote(p, s) ==
    /\ Len(db.rows) < MaxRows \/ unique_constraint_failed(db.rows,
                                     [quote_text |-> p[1], author |-> p[2]])
    /\ LET r == add_quote(db.rows, p[1], p[2], s, db.dflt)
       IN  db' = [db EXCEPT !.rows = r.rows,
                            !.op = DbCall("add_quote", <<p[1], p[2], s>>,
                                          db.rows, r)]
    /\ UNCHANGED <<file, now, pc, loadr, selr, updr, history, wf, procs>>

MarkQuoteAsUsed(id) ==
    /\ LET r == mark_quote_as_used(db.rows, id, now)
       IN  db' = [db EXCEPT !.rows = r.rows,
                            !.marked = IF r.ret THEN @ \cup {id} ELSE @,
                            !.op = DbCall("mark_quote_as_used", id,
                                          db.rows, r)]
    /\ UNCHANGED <<file, now, pc, loadr, selr, updr, history, wf, procs>>

ResetCycle ==
    /\ LET r == reset_cycle(db.rows)
       IN  db' = [db EXCEPT !.rows = r.rows,
                            !.marked = {},
                            !.op = DbCall("reset_cycle", None, db.rows, r)]
    /\ UNCHANGED <<file, now, pc, loadr, selr, updr, history, wf, procs>>

TickDb ==
    /\ now < StartClock + MaxDbTicks
    /\ Tick

NoDbCall == [name |-> "none", arg |-> None, before |-> <<>>, ret |-> None, exc |-> ""]

InitDb ==
    /\ file = Unparsed("absent")
    /\ now = StartClock
    /\ pc = "api"
    /\ loadr = NoLoad
    /\ selr = NoSelect
    /\ updr = NoUpdate
    /\ history = <<>>
    /\ db \in [rows : {<<>>}, dflt : UsedDefaults, op : {NoDbCall},
              marked : {{}}]
    /\ wf = NoWf
    /\ procs = NoProcs

NextDb ==
    \/ TickDb
    \/ \E p \in DbPairs, s \in DbSources : AddQuote(p, s)
    \/ \E id \in DbIds : MarkQuoteAsUsed(id)
    \/ ResetCycle

SpecDb == InitDb /\ [][NextDb]_vars

\* C11: the (quote_text, author) pair is unique in the table in every state
\* reachable by add_quote calls; an add_quote call with a pair the table
\* already holds does not raise, returns the quote_id of the row holding
\* that pair (the one the first call returned) and leaves the table, hence
\* count_quotes().total, as it was.
PairsUnique(rows) ==
    \A i, j \in 1..Len(rows) :
        (rows[i].quote_text = rows[j].quote_text
            /\ rows[i].author = rows[j].author) => i = j

AddedAgain ==
    /\ db.op.name = "add_quote"
    /\ unique_constraint_failed(db.op.before,
           [quote_text |-> db.op.arg[1], author |-> db.op.arg[2]])

C11_AddQuoteIdempotent ==
    /\ PairsUnique(db.rows)
    /\ db.op.name = "add_quote" =>
          /\ db.op.exc = ""
          /\ \E i \in 1..Len(db.rows) :
                /\ db.rows[i].quote_text = db.op.arg[1]
                /\ db.rows[i].author = db.op.arg[2]
                /\ db.rows[i].quote_id = db.op.ret
    /\ AddedAgain =>
          /\ db.rows = db.op.before
          /\ count_quotes(db.rows).total = count_quotes(db.op.before).total
          /\ db.op.ret \in RowIds(db.op.before)

C11_Witness ==
    /\ AddedAgain
    /\ Len(db.rows) = MaxRows
    /\ db.op.ret = 1
    /\ db.op.arg[3] = "s1"
    /\ db.rows[1].source = Null

\* C12: right after reset_cycle, whatever add_quote and mark_quote_as_used
\* calls came before, count_quotes reports used = 0 and unused = total, and
\* total is what it was before the reset.
JustReset == db.op.name = "reset_cycle"

C12_ResetClearsEveryFlag ==
    JustReset =>
        /\ count_quotes(db.rows).used = 0
        /\ count_quotes(db.rows).unused = count_quotes(db.rows).total
        /\ count_quotes(db.rows).total = count_quotes(db.op.before).total
        /\ db.op.ret = count_quotes(db.rows).total

C12_Witness ==
    /\ JustReset
    /\ count_quotes(db.op.before).used > 0
    /\ count_quotes(db.op.before).total = MaxRows
    /\ count_quotes(db.op.before).used < MaxRows

\* ---------------------------------------------------------------------
\* SpecConc: two invocations of the load -> select -> record cycle of
\* quote_manager.py on the same document, their steps interleaved.
\* update_quote_usage is not one step: it reads the whole document and
\* the clock (lines 111-119), and writes the whole document back later
\* (lines 137-138).  procs.n counts the steps taken; every invocation
\* notes at which count it loaded, read and wrote.
\* ---------------------------------------------------------------------

MaxConcRecords == 2

MaxConcTicks == 2

ConcStamps == {0, 1}

ConcFiles ==
    {Document("list", [i \in 1..n |->
                          Quote(CycleKeys[i][1], CycleKeys[i][2],
                                SourceOf(CycleKeys[i]), "num", stamps[i])]) :
        n \in 1..MaxConcRecords, stamps \in [1..MaxConcRecords -> ConcStamps]}

Invocations == {1, 2}

NoStep == [load |-> 0, read |-> 0, write |-> 0]

NewInvocation ==
    [pc |-> "load", loaded |-> <<>>, sel |-> None, arg |-> NoneArg,
     data |-> Unparsed("absent"), clock |-> 0, ret |-> FALSE, stamp |-> 0,
     idx |-> 0, at |-> NoStep]

Step(p, fields) ==
    procs' = [procs EXCEPT !.n = @ + 1, !.p[p] = fields]

ConcLoad(p) ==
    /\ procs.p[p].pc = "load"
    /\ LET res == load_quotes_from_json(file)
           go == res.exc = "" /\ res.ret # <<>> IN
       Step(p, [procs.p[p] EXCEPT
                   !.pc = IF go THEN "select" ELSE "done",
                   !.loaded = res.ret,
                   !.at.load = procs.n + 1])
    /\ UNCHANGED <<file, now, pc, loadr, selr, updr, history, db, wf>>

ConcSelect(p) ==
    /\ procs.p[p].pc = "select"
    /\ LET res == select_quote(procs.p[p].loaded) IN
       \E r \in res.possible :
          Step(p, [procs.p[p] EXCEPT
                      !.pc = IF r # None THEN "read" ELSE "done",
                      !.sel = r,
                      !.arg = IF r # None THEN AsArg(procs.p[p].loaded[r])
                              ELSE NoneArg])
    /\ UNCHANGED <<file, now, pc, loadr, selr, updr, history, db, wf>>

\* open(file_path, 'r'), json.load and time.time(): the call keeps the
\* document as it is now
UpdateRead_loaded(p) ==
    /\ procs.p[p].pc = "read"
    /\ Step(p, [procs.p[p] EXCEPT
                   !.pc = "write",
                   !.data = Document("list", procs.p[p].loaded),
                   !.clock = now,
                   !.at.read = procs.n + 1])
    /\ UNCHANGED <<file, now, pc, loadr, selr, updr, history, db, wf>>

UpdateRead(p) ==
    /\ procs.p[p].pc = "read"
    /\ Step(p, [procs.p[p] EXCEPT
                   !.pc = "write",
                   !.data = file,
                   !.clock = now,
                   !.at.read = procs.n + 1])
    /\ UNCHANGED <<file, now, pc, loadr, selr, updr, history, db, wf>>

\* the rest of the call, computed from the document that was read: the
\* file is overwritten when the write-back is reached
UpdateWrite_reread(p, io) ==
    /\ procs.p[p].pc = "write"
    /\ LET me == procs.p[p]
           res == update_quote_usage(me.arg, file, me.clock, io)
           wrote == res.ret \/ res.file # file IN
       /\ file' = IF wrote THEN res.file ELSE file
       /\ Step(p, [me EXCEPT !.pc = "done", !.ret = res.ret,
                             !.stamp = res.stamp, !.idx = res.idx,
                             !.at.write = procs.n + 1])
    /\ UNCHANGED <<now, pc, loadr, selr, updr, history, db, wf>>

UpdateWrite(p, io) ==
    /\ procs.p[p].pc = "write"
    /\ LET me == procs.p[p]
           res == update_quote_usage(me.arg, me.data, me.clock, io)
           wrote == res.ret \/ res.file # me.data IN
       /\ file' = IF wrote THEN res.file ELSE file
       /\ Step(p, [me EXCEPT !.pc = "done", !.ret = res.ret,
                             !.stamp = res.stamp, !.idx = res.idx,
                             !.at.write = procs.n + 1])
    /\ UNCHANGED <<now, pc, loadr, selr, updr, history, db, wf>>

TickConc ==
    /\ now < StartClock + MaxConcTicks
    /\ Tick

InitConc ==
    /\ file \in ConcFiles
    /\ now = StartClock
    /\ pc = "api"
    /\ loadr = NoLoad
    /\ selr = NoSelect
    /\ updr = NoUpdate
    /\ history = <<>>
    /\ db = NoDb
    /\ wf = NoWf
    /\ procs = [n |-> 0, p |-> [i \in Invocations |-> NewInvocation]]

NextConc ==
    \/ TickConc
    \/ \E p \in Invocations : ConcLoad(p)
    \/ \E p \in Invocations : ConcSelect(p)
    \/ \E p \in Invocations : UpdateRead(p)
    \/ \E p \in Invocations, io \in IoOutcomes : UpdateWrite(p, io)

SpecConc == InitConc /\ [][NextConc]_vars

Succeeded(p) == procs.p[p].pc = "done" /\ procs.p[p].ret

\* both calls of update_quote_usage returned True, for different records,
\* and q read the document before p wrote it and wrote it after p did
Overlapped(p, q) ==
    /\ p # q
    /\ Succeeded(p)
    /\ Succeeded(q)
    /\ procs.p[p].idx # procs.p[q].idx
    /\ procs.p[q].at.read < procs.p[p].at.write
    /\ procs.p[p].at.write < procs.p[q].at.write

\* C13: two overlapping calls of update_quote_usage for different records
\* both return True, and the document then holds the later writer's view:
\* its own timestamp, and for the earlier writer's record the value the
\* later writer had read, not the timestamp the earlier writer wrote.
C13_LaterWriterWins ==
    \A p, q \in Invocations :
        Overlapped(p, q) =>
            /\ file = Document("list",
                   set_timestamp(procs.p[q].data.quotes, procs.p[q].idx,
                                 procs.p[q].stamp))
            /\ file.quotes[procs.p[p].idx] =
                   procs.p[q].data.quotes[procs.p[p].idx]

C13_Witness ==
    \E p, q \in Invocations :
        /\ Overlapped(p, q)
        /\ file.quotes[procs.p[p].idx].ts # procs.p[p].stamp
        /\ file.quotes[procs.p[q].idx].ts = procs.p[q].stamp

\* p loaded, then q wrote its update for another record, then p's call of
\* update_quote_usage began
WroteBetween(p, q) ==
    /\ p # q
    /\ Succeeded(p)
    /\ Succeeded(q)
    /\ procs.p[p].idx # procs.p[q].idx
    /\ procs.p[p].at.load < procs.p[q].at.write
    /\ procs.p[q].at.write < procs.p[p].at.read

\* C19: an invocation loads, then selects, then records, and the record
\* step works on the document as it is when update_quote_usage reads it:
\* an update another invocation wrote for a different record after this
\* invocation's load and before its update_quote_usage began is still in
\* the document, next to this invocation's own, when the call has returned.
C19_RecordUsesCurrentDocument ==
    \A p, q \in Invocations :
        /\ procs.p[p].at.read > 0 => procs.p[p].at.load < procs.p[p].at.read
        /\ procs.p[p].at.write > 0 => procs.p[p].at.read < procs.p[p].at.write
        /\ procs.p[p].pc \in {"read", "write"} =>
              /\ procs.p[p].sel \in DOMAIN procs.p[p].loaded
              /\ procs.p[p].arg = AsArg(procs.p[p].loaded[procs.p[p].sel])
        /\ WroteBetween(p, q) =>
              /\ file.quotes[procs.p[p].idx].ts = procs.p[p].stamp
              /\ file.quotes[procs.p[q].idx].ts = procs.p[q].stamp

C19_Witness ==
    \E p, q \in Invocations :
        /\ WroteBetween(p, q)
        /\ procs.p[q].stamp # procs.p[p].loaded[procs.p[q].idx].ts
        /\ procs.p[q].at.read > procs.p[p].at.load

\* ---------------------------------------------------------------------
\* Round trip and frame of the document variant
\* ---------------------------------------------------------------------

\* what a record is apart from its last_used_timestamp
Content(q) ==
    [isdict |-> q.isdict, text |-> q.text, author |-> q.author,
     source |-> q.source]

\* the documents f and g hold the same records in the same order, and the
\* same timestamps except at position i
SameButTimestampAt(i, f, g) ==
    /\ g.kind = f.kind
    /\ g.shape = f.shape
    /\ Len(g.quotes) = Len(f.quotes)
    /\ \A j \in DOMAIN f.quotes :
          /\ Content(g.quotes[j]) = Content(f.quotes[j])
          /\ j # i => g.quotes[j] = f.quotes[j]

\* C17: a cycle's load_quotes_from_json and select_quote leave the
\* persisted document as it is, and the document update_quote_usage writes
\* back holds the same records (text, author, source), as many and in the
\* same order as before; the only value that may differ is the
\* last_used_timestamp of the record the call stamped, also where the
\* loaded list had replaced a missing timestamp by 0.
C17_RoundTrip ==
    [][/\ pc \in {"load", "select"} => file' = file
       /\ (pc = "record" /\ updr'.ret) =>
             /\ SameButTimestampAt(updr'.idx, file, file')
             /\ file'.quotes[updr'.idx].ts = updr'.stamp
             /\ file'.quotes[updr'.idx].tsk = "num"]_vars

C17_Witness ==
    /\ updr.called
    /\ updr.ret
    /\ Len(file.quotes) = MaxRecords
    /\ \E j \in DOMAIN file.quotes :
          /\ j # updr.idx
          /\ file.quotes[j].tsk = "absent"
    /\ file.quotes[updr.idx].ts # updr.pre.quotes[updr.idx].ts

\* C18: a call of update_quote_usage that returns True changed one thing:
\* the last_used_timestamp of the first record of the document whose text
\* and author equal the argument's, wherever in the list it is; every other
\* record, the other fields of that record, the length and the order of
\* the list are as before.
C18_UpdateChangesOneTimestamp ==
    (updr.called /\ updr.ret) =>
        /\ updr.idx \in DOMAIN updr.pre.quotes
        /\ matches(updr.pre.quotes[updr.idx], updr.arg)
        /\ \A j \in 1..(updr.idx - 1) : ~matches(updr.pre.quotes[j], updr.arg)
        /\ SameButTimestampAt(updr.idx, updr.pre, file)
        /\ file.quotes[updr.idx].tsk = "num"
        /\ file.quotes[updr.idx].ts = updr.stamp

C18_Witness ==
    /\ updr.called
    /\ updr.ret
    /\ updr.idx = MaxUpdLen
    /\ updr.pre.quotes[1].isdict
    /\ ~matches(updr.pre.quotes[1], updr.arg)
    /\ file.quotes[updr.idx].ts # updr.pre.quotes[updr.idx].ts
    /\ file.quotes[1] = updr.pre.quotes[1]

\* ---------------------------------------------------------------------
\* SpecMain: one invocation of main_workflow (main.py).  wf.calls is the
\* sequence of the calls made so far, each with whether it returned a
\* result; wf.halt names the step at which the workflow returned early.
\* select_next_quote is imported from quote_manager but not part of the
\* sources: it is the document-store cycle the specification describes,
\* load, select and record the usage at selection.
\* ---------------------------------------------------------------------

num_images_to_generate == 4

MaxMainRecords == 2

MaxMainTicks == 1

MainStamps ==
    {[tsk |-> "absent", ts |-> 0], [tsk |-> "num", ts |-> 0],
     [tsk |-> "num", ts |-> 1]}

MainLists(n) ==
    {[i \in 1..n |-> Quote(CycleKeys[i][1], CycleKeys[i][2],
                           SourceOf(CycleKeys[i]), stamps[i].tsk, stamps[i].ts)] :
        stamps \in [1..n -> MainStamps]}

\* a record whose text is null is loaded, selected and relocated like any
\* other
MainFiles ==
    {Unparsed("absent"), Unparsed("invalid"), Document("nokey", <<>>),
     Document("list", <<Quote(Null, "a1", NoKey, "num", 0)>>)}
    \cup {Document("list", quotes) :
             quotes \in UNION {MainLists(n) : n \in 0..MaxMainRecords}}

NextQuote(sel, quote, f, stamp) ==
    [sel |-> sel, quote |-> quote, file |-> f, stamp |-> stamp]

\* r: the position random.choice takes, one of select_quote's possible ones
select_next_quote(f, r, clock, io) ==
    LET l == load_quotes_from_json(f) IN
    IF l.exc # "" \/ l.ret = <<>> \/ r = None
    THEN NextQuote(None, NonDict, f, 0)
    ELSE LET u == update_quote_usage(AsArg(l.ret[r]), f, clock, io) IN
         IF u.ret THEN NextQuote(r, l.ret[r], u.file, u.stamp)
         ELSE NextQuote(None, NonDict, u.file, 0)

possible_quotes(f) ==
    LET l == load_quotes_from_json(f) IN
    IF l.exc # "" THEN {None} ELSE select_quote(l.ret).possible

Call(name, ok) == [name |-> name, ok |-> ok]

\* the value choose_best_image returns: an index, or None
Choice(i) == [none |-> FALSE, index |-> i]

ChoiceNone == [none |-> TRUE, index |-> 0]

Choices == {ChoiceNone} \cup {Choice(i) : i \in 0..(num_images_to_generate - 1)}

NewWorkflow(f) ==
    [pc |-> "select", i |-> 0, calls |-> <<>>, sel |-> None,
     quote |-> NonDict, pre |-> f, selected |-> f, stamp |-> 0,
     best |-> NullInt, posted |-> 0, halt |-> "", exc |-> "", out |-> ""]

\* a return statement of main_workflow: the invocation ends at this step
Halt(w, step) == [w EXCEPT !.pc = "done", !.halt = step, !.out = "returned"]

\* the exception leaves main_workflow and reaches its caller
catch_all_reraise(w, step, exc) ==
    [w EXCEPT !.pc = "done", !.halt = step, !.exc = exc, !.out = "raised"]

\* except Exception (lines 111-113 and 172-174): the exception raised at
\* this step is logged and main_workflow returns
catch_all(w, step, exc) == [Halt(w, step) EXCEPT !.exc = exc]

Called(w, name, ok) == [w EXCEPT !.calls = Append(@, Call(name, ok))]

\* lines 70-81
SelectQuote_continue(io) ==
    /\ wf.pc = "select"
    /\ \E r \in possible_quotes(file) :
          LET res == select_next_quote(file, r, now, io)
              w == [Called(wf, "select_next_quote", res.sel # None) EXCEPT
                       !.sel = res.sel, !.quote = res.quote,
                       !.selected = res.file, !.stamp = res.stamp] IN
          /\ file' = res.file
          /\ wf' = [w EXCEPT !.pc = "prompt"]
    /\ UNCHANGED <<now, pc, loadr, selr, updr, history, db, procs>>

SelectQuote(io) ==
    /\ wf.pc = "select"
    /\ \E r \in possible_quotes(file) :
          LET res == select_next_quote(file, r, now, io)
              w == [Called(wf, "select_next_quote", res.sel # None) EXCEPT
                       !.sel = res.sel, !.quote = res.quote,
                       !.selected = res.file, !.stamp = res.stamp] IN
          /\ file' = res.file
          /\ wf' = IF res.sel = None THEN Halt(w, "select_next_quote")
                   ELSE IF res.quote.text \in {NoKey, Null}
                   THEN catch_all(w, "select_next_quote",
                                  IF res.quote.text = NoKey THEN "KeyError"
                                  ELSE "TypeError")
                   ELSE [w EXCEPT !.pc = "prompt"]
    /\ UNCHANGED <<now, pc, loadr, selr, updr, history, db, procs>>

\* lines 89-95, with the store put back as it was before the cycle when
\* the step fails
GenerateImagePrompt_restore(ok) ==
    /\ wf.pc = "prompt"
    /\ LET w == Called(wf, "generate_image_prompt", ok) IN
       wf' = IF ok THEN [w EXCEPT !.pc = "image"]
             ELSE Halt(w, "generate_image_prompt")
    /\ file' = IF ok THEN file ELSE wf.pre
    /\ UNCHANGED <<now, pc, loadr, selr, updr, history, db, procs>>

\* lines 89-95
GenerateImagePrompt(ok) ==
    /\ wf.pc = "prompt"
    /\ LET w == Called(wf, "generate_image_prompt", ok) IN
       wf' = IF ok THEN [w EXCEPT !.pc = "image"]
             ELSE Halt(w, "generate_image_prompt")
    /\ UNCHANGED <<file, now, pc, loadr, selr, updr, history, db, procs>>

\* lines 97-104
GenerateImageGemini(ok) ==
    /\ wf.pc = "image"
    /\ LET w == Called(wf, "generate_image_gemini", ok) IN
       wf' = IF ok THEN [w EXCEPT !.pc = "decode"]
             ELSE Halt(w, "generate_image_gemini")
    /\ UNCHANGED <<file, now, pc, loadr, selr, updr, history, db, procs>>

\* lines 105-117: Image.open and save, then the next round of the loop
DecodeImage(ok) ==
    /\ wf.pc = "decode"
    /\ LET w == Called(wf, "Image.open", ok) IN
       wf' = IF ~ok THEN catch_all(w, "Image.open", "UnidentifiedImageError")
             ELSE [w EXCEPT !.i = @ + 1,
                            !.pc = IF wf.i + 1 < num_images_to_generate
                                   THEN "prompt" ELSE "choose"]
    /\ UNCHANGED <<file, now, pc, loadr, selr, updr, history, db, procs>>

\* lines 119-130: None falls back to the first image
ChooseBestImage(c) ==
    /\ wf.pc = "choose"
    /\ wf' = [Called(wf, "choose_best_image", ~c.none) EXCEPT
                 !.best = IF c.none THEN 0 ELSE c.index,
                 !.pc = "explain"]
    /\ UNCHANGED <<file, now, pc, loadr, selr, updr, history, db, procs>>

\* lines 134-140
GenerateExplanation_continue(ok) ==
    /\ wf.pc = "explain"
    /\ wf' = [Called(wf, "generate_explanation", ok) EXCEPT !.pc = "embed"]
    /\ UNCHANGED <<file, now, pc, loadr, selr, updr, history, db, procs>>

GenerateExplanation(ok) ==
    /\ wf.pc = "explain"
    /\ LET w == Called(wf, "generate_explanation", ok) IN
       wf' = IF ok THEN [w EXCEPT !.pc = "embed"]
             ELSE Halt(w, "generate_explanation")
    /\ UNCHANGED <<file, now, pc, loadr, selr, updr, history, db, procs>>

\* lines 143-153
EmbedTextOnImage(ok) ==
    /\ wf.pc = "embed"
    /\ LET w == Called(wf, "embed_text_on_image", ok) IN
       wf' = IF ok THEN [w EXCEPT !.pc = "post"]
             ELSE Halt(w, "embed_text_on_image")
    /\ UNCHANGED <<file, now, pc, loadr, selr, updr, history, db, procs>>

\* lines 155-170
PostToTelegram(ok) ==
    /\ wf.pc = "post"
    /\ wf' = [Called(wf, "post_to_telegram", ok) EXCEPT
                 !.posted = @ + 1, !.pc = "done", !.out = "returned"]
    /\ UNCHANGED <<file, now, pc, loadr, selr, updr, history, db, procs>>

TickMain ==
    /\ wf.pc = "select"
    /\ now < StartClock + MaxMainTicks
    /\ Tick

InitMain ==
    /\ file \in MainFiles
    /\ now = StartClock
    /\ pc = "api"
    /\ loadr = NoLoad
    /\ selr = NoSelect
    /\ updr = NoUpdate
    /\ history = <<>>
    /\ db = NoDb
    /\ wf = NewWorkflow(file)
    /\ procs = NoProcs

NextMain ==
    \/ TickMain
    \/ \E io \in IoOutcomes : SelectQuote(io)
    \/ \E ok \in BOOLEAN : GenerateImagePrompt(ok)
    \/ \E ok \in BOOLEAN : GenerateImageGemini(ok)
    \/ \E ok \in BOOLEAN : DecodeImage(ok)
    \/ \E c \in Choices : ChooseBestImage(c)
    \/ \E ok \in BOOLEAN : GenerateExplanation(ok)
    \/ \E ok \in BOOLEAN : EmbedTextOnImage(ok)
    \/ \E ok \in BOOLEAN : PostToTelegram(ok)

SpecMain == InitMain /\ [][NextMain]_vars

\* ---- properties of main_workflow (SpecMain) ----

Names(calls) == [k \in DOMAIN calls |-> calls[k].name]

Loaded(f) == load_quotes_from_json(f)

\* the load failed or gave no records, or select_quote had nothing to
\* return
NothingSelected ==
    /\ wf.calls # <<>>
    /\ \/ Loaded(wf.pre).exc # ""
       \/ Loaded(wf.pre).ret = <<>>
       \/ select_quote(Loaded(wf.pre).ret).possible = {None}

\* C14: when the load of the store fails or the selection yields no quote,
\* the workflow has halted with select_next_quote as its only call: no
\* generation collaborator, embed_text_on_image or post_to_telegram was
\* invoked, and the persisted document is as it was before the cycle.
C14_HaltsBeforeGeneration ==
    NothingSelected =>
        /\ wf.pc = "done"
        /\ wf.halt = "select_next_quote"
        /\ wf.calls = <<Call("select_next_quote", FALSE)>>
        /\ wf.posted = 0
        /\ file = wf.pre

C14_Witness ==
    /\ NothingSelected
    /\ wf.pre.kind = "absent"
    /\ wf.pc = "done"
    /\ now > StartClock

Collaborators ==
    {"generate_image_prompt", "generate_image_gemini", "choose_best_image",
     "generate_explanation", "embed_text_on_image"}

\* C15: whenever a collaborator (generate_image_prompt,
\* generate_image_gemini, choose_best_image, generate_explanation,
\* embed_text_on_image) returned None, the workflow halted there: that call
\* is the last one made and post_to_telegram was not invoked.
C15_NoneHaltsWorkflow ==
    \A k \in DOMAIN wf.calls :
        (wf.calls[k].name \in Collaborators /\ ~wf.calls[k].ok) =>
            /\ k = Len(wf.calls)
            /\ wf.pc = "done"
            /\ wf.posted = 0

GenerationSteps ==
    {"generate_image_prompt", "generate_image_gemini", "Image.open",
     "generate_explanation", "embed_text_on_image"}

GenerationFailed == wf.sel # None /\ wf.halt \in GenerationSteps

Repeat(s, n) == [k \in 1..(n * Len(s)) |-> s[((k - 1) % Len(s)) + 1]]

ExpectedCalls ==
    <<"select_next_quote">>
    \o Repeat(<<"generate_image_prompt", "generate_image_gemini", "Image.open">>,
              num_images_to_generate)
    \o <<"choose_best_image", "generate_explanation", "embed_text_on_image",
         "post_to_telegram">>

IsPrefix(s, t) == Len(s) <= Len(t) /\ s = SubSeq(t, 1, Len(s))

\* C20: post_to_telegram is invoked at most once in an invocation of
\* main_workflow, and when it is, the calls before it are, in this order,
\* the selection of a quote, four rounds of image prompt, image and
\* decoding, choose_best_image (an index is fixed: the one it returned, or
\* 0 when it returned None), generate_explanation and embed_text_on_image,
\* each of the others having returned a result; a workflow that halted at
\* an earlier step made no publish call.
C20_PublishOnceAfterAllSteps ==
    /\ wf.posted <= 1
    /\ Cardinality({k \in DOMAIN wf.calls :
                       wf.calls[k].name = "post_to_telegram"}) = wf.posted
    /\ IsPrefix(Names(wf.calls), ExpectedCalls)
    /\ wf.posted = 1 =>
          /\ Names(wf.calls) = ExpectedCalls
          /\ \A k \in 1..(Len(wf.calls) - 1) :
                wf.calls[k].ok \/ wf.calls[k].name = "choose_best_image"
          /\ wf.sel # None
          /\ wf.i = num_images_to_generate
          /\ wf.best \in 0..(num_images_to_generate - 1)
    /\ wf.halt # "" => (wf.posted = 0 /\ wf.pc = "done")

C20_Witness ==
    /\ wf.posted = 1
    /\ wf.calls[Len(wf.calls)] = Call("post_to_telegram", TRUE)
    /\ wf.best = num_images_to_generate - 1
    /\ Len(wf.pre.quotes) = MaxMainRecords

\* ---- further properties of the relational store (SpecDb) ----

JustMarked == db.op.name = "mark_quote_as_used"

\* C22: mark_quote_as_used(quote_id) sets is_used_in_current_cycle to 1 and
\* last_used_date to a time of the clock on the row with that quote_id
\* and leaves every other row and every other column as it was; it returns
\* True exactly when a row with that quote_id exists, and when none exists
\* it returns False and the table is unchanged.
C22_MarkChangesOneRow ==
    JustMarked =>
        /\ Len(db.rows) = Len(db.op.before)
        /\ db.op.exc = ""
        /\ db.op.ret = (db.op.arg \in RowIds(db.op.before))
        /\ \A i \in 1..Len(db.rows) :
              IF db.op.before[i].quote_id = db.op.arg
              THEN /\ db.rows[i].is_used_in_current_cycle = 1
                   /\ \E c \in StartClock..now :
                         db.rows[i].last_used_date = isoformat(c)
                   /\ db.rows[i].quote_id = db.op.before[i].quote_id
                   /\ db.rows[i].quote_text = db.op.before[i].quote_text
                   /\ db.rows[i].author = db.op.before[i].author
                   /\ db.rows[i].source = db.op.before[i].source
              ELSE db.rows[i] = db.op.before[i]
        /\ ~db.op.ret => db.rows = db.op.before

C22_Witness ==
    /\ JustMarked
    /\ db.op.ret
    /\ db.op.arg = MaxRows
    /\ Len(db.rows) = MaxRows
    /\ db.rows[1].is_used_in_current_cycle # 1
    /\ db.rows[1] = db.op.before[1]
    /\ db.op.before[MaxRows].is_used_in_current_cycle # 1
    /\ now > StartClock

get_random_quote(rows) ==
    IF rows = <<>> THEN {None} ELSE RowIds(rows)

get_random_unused_quote(rows) ==
    LET unused == {i \in 1..Len(rows) : rows[i].is_used_in_current_cycle = 0}
    IN  IF unused = {} THEN {None}
        ELSE {rows[i].quote_id : i \in unused}

RECURSIVE AddAll(_, _, _)
AddAll(rows, pairs, dflt) ==
    IF pairs = <<>> THEN rows
    ELSE AddAll(add_quote(rows, pairs[1][1], pairs[1][2], Null, dflt).rows,
                Tail(pairs), dflt)

\* the tables ingestion can have built: up to MaxRows quotes added in any
\* order
RotTables(dflt) ==
    {AddAll(<<>>, pairs, dflt) :
        pairs \in {s \in SeqsUpTo(DbPairs, MaxRows) :
                      \A i, j \in DOMAIN s : s[i] = s[j] => i = j}}

GetRandomUnusedQuote ==
    /\ db.got = None
    /\ \E r \in get_random_unused_quote(db.rows) :
          db' = [db EXCEPT
                    !.got = r,
                    !.picked = IF r = None THEN @ ELSE Append(@, r),
                    !.op = DbCall("get_random_unused_quote", None, db.rows,
                                  DbResult(db.rows, r, ""))]
    /\ UNCHANGED <<file, now, pc, loadr, selr, updr, history, wf, procs>>

MarkReturned ==
    /\ db.got # None
    /\ LET r == mark_quote_as_used(db.rows, db.got, now)
       IN  db' = [db EXCEPT !.rows = r.rows,
                            !.got = None,
                            !.marked = IF r.ret THEN @ \cup {db.got} ELSE @,
                            !.op = DbCall("mark_quote_as_used", db.got,
                                          db.rows, r)]
    /\ UNCHANGED <<file, now, pc, loadr, selr, updr, history, wf, procs>>

ResetBetweenCycles ==
    /\ db.got = None
    /\ LET r == reset_cycle(db.rows)
       IN  db' = [db EXCEPT !.rows = r.rows,
                            !.marked = {},
                            !.picked = <<>>,
                            !.reset = TRUE,
                            !.op = DbCall("reset_cycle", None, db.rows, r)]
    /\ UNCHANGED <<file, now, pc, loadr, selr, updr, history, wf, procs>>

InitRot ==
    /\ file = Unparsed("absent")
    /\ now = StartClock
    /\ pc = "api"
    /\ loadr = NoLoad
    /\ selr = NoSelect
    /\ updr = NoUpdate
    /\ history = <<>>
    /\ \E dflt \in UsedDefaults : \E rows \in RotTables(dflt) :
          db = [rows |-> rows, dflt |-> dflt, op |-> NoDbCall, marked |-> {},
                picked |-> <<>>, got |-> None, reset |-> FALSE]
    /\ wf = NoWf
    /\ procs = NoProcs

NextRot ==
    \/ TickDb
    \/ GetRandomUnusedQuote
    \/ MarkReturned
    \/ ResetBetweenCycles

SpecRot == InitRot /\ [][NextRot]_vars

JustGot == db.op.name = "get_random_unused_quote"

\* C21: in cycles of get_random_unused_quote followed by mark_quote_as_used
\* on the returned quote_id, after a reset_cycle and until the next one,
\* every quote returned has is_used_in_current_cycle = 0 when it is
\* returned, no quote is returned twice, and get_random_unused_quote
\* returns None exactly when as many cycles have been made as the table
\* has quotes, then and in every later call until the next reset_cycle.
C21_OncePerCycle ==
    db.reset =>
        /\ \A i, j \in DOMAIN db.picked : db.picked[i] = db.picked[j] => i = j
        /\ Len(db.picked) <= Len(db.rows)
        /\ JustGot =>
              /\ (db.op.ret = None) <=>
                    (Len(db.picked) - (IF db.got = None THEN 0 ELSE 1)
                        = Len(db.rows))
              /\ db.op.ret # None =>
                    \E i \in 1..Len(db.rows) :
                       /\ db.rows[i].quote_id = db.op.ret
                       /\ db.rows[i].is_used_in_current_cycle = 0

C21_Witness ==
    /\ db.reset
    /\ JustGot
    /\ db.op.ret = None
    /\ Len(db.rows) = MaxRows
    /\ Len(db.picked) = MaxRows
    /\ db.picked[1] = MaxRows

\* ---------------------------------------------------------------------
\* SpecDbConc: two connections to the same database file, each making one
\* call of mark_quote_as_used, their steps interleaved.  A call reads the
\* clock (line 240), executes its UPDATE, which takes the database's write
\* lock and is not visible to the other connection, and commits, which
\* publishes the change and releases the lock (Database.update, lines
\* 167-168).  An UPDATE that finds the lock taken waits for it; when the
\* wait times out it raises OperationalError (database is locked).
\* ---------------------------------------------------------------------

Connections == {1, 2}

NoLock == 0

NewCall(id) ==
    [pc |-> "start", id |-> id, clock |-> 0, pending |-> <<>>,
     rowcount |-> 0, ret |-> FALSE, exc |-> "",
     at |-> [start |-> 0, exec |-> 0, commit |-> 0]]

ConnStep(c, fields) ==
    [procs EXCEPT !.n = @ + 1, !.c[c] = fields]

StartMark(c) ==
    /\ procs.c[c].pc = "start"
    /\ procs' = ConnStep(c, [procs.c[c] EXCEPT !.pc = "execute",
                                               !.clock = now,
                                               !.at.start = procs.n + 1])
    /\ UNCHANGED <<file, now, pc, loadr, selr, updr, history, db, wf>>

\* the UPDATE made on the table as read, without the write lock
ExecuteUpdate_nolock(c) ==
    /\ procs.c[c].pc = "execute"
    /\ LET me == procs.c[c]
           r == update(db.rows, [is_used_in_current_cycle |-> 1,
                                 last_used_date |-> isoformat(me.clock)],
                       me.id) IN
       procs' = ConnStep(c, [me EXCEPT !.pc = "commit",
                                       !.pending = r.rows,
                                       !.rowcount = r.ret,
                                       !.at.exec = procs.n + 1])
    /\ UNCHANGED <<file, now, pc, loadr, selr, updr, history, db, wf>>

ExecuteUpdate(c) ==
    /\ procs.c[c].pc = "execute"
    /\ procs.lock = NoLock
    /\ LET me == procs.c[c]
           r == update(db.rows, [is_used_in_current_cycle |-> 1,
                                 last_used_date |-> isoformat(me.clock)],
                       me.id) IN
       procs' = [ConnStep(c, [me EXCEPT !.pc = "commit",
                                        !.pending = r.rows,
                                        !.rowcount = r.ret,
                                        !.at.exec = procs.n + 1])
                    EXCEPT !.lock = c]
    /\ UNCHANGED <<file, now, pc, loadr, selr, updr, history, db, wf>>

\* the busy timeout expires while the other connection holds the lock
ExecuteLocked(c) ==
    /\ procs.c[c].pc = "execute"
    /\ procs.lock \notin {NoLock, c}
    /\ procs' = ConnStep(c, [procs.c[c] EXCEPT !.pc = "done",
                                               !.exc = "OperationalError",
                                               !.at.exec = procs.n + 1])
    /\ UNCHANGED <<file, now, pc, loadr, selr, updr, history, db, wf>>

CommitUpdate(c) ==
    /\ procs.c[c].pc = "commit"
    /\ LET me == procs.c[c] IN
       /\ db' = [db EXCEPT !.rows = me.pending,
                           !.marked = IF me.rowcount > 0 THEN @ \cup {me.id}
                                      ELSE @]
       /\ procs' = [ConnStep(c, [me EXCEPT !.pc = "done",
                                           !.ret = me.rowcount > 0,
                                           !.at.commit = procs.n + 1])
                       EXCEPT !.lock = NoLock]
    /\ UNCHANGED <<file, now, pc, loadr, selr, updr, history, wf>>

InitDbConc ==
    /\ file = Unparsed("absent")
    /\ now = StartClock
    /\ pc = "api"
    /\ loadr = NoLoad
    /\ selr = NoSelect
    /\ updr = NoUpdate
    /\ history = <<>>
    /\ \E dflt \in UsedDefaults : \E rows \in RotTables(dflt) :
          db = [rows |-> rows, dflt |-> dflt, op |-> NoDbCall, marked |-> {}]
    /\ wf = NoWf
    /\ \E a, b \in DbIds :
          /\ a # b
          /\ procs = [n |-> 0, lock |-> NoLock, before |-> db.rows,
                      c |-> [c \in Connections |->
                                NewCall(IF c = 1 THEN a ELSE b)]]

NextDbConc ==
    \/ TickDb
    \/ \E c \in Connections : StartMark(c)
    \/ \E c \in Connections : ExecuteUpdate(c)
    \/ \E c \in Connections : ExecuteLocked(c)
    \/ \E c \in Connections : CommitUpdate(c)

SpecDbConc == InitDbConc /\ [][NextDbConc]_vars

Returned_(c) == procs.c[c].pc = "done" /\ procs.c[c].exc = ""

RowOf(rows, id) == rows[CHOOSE i \in 1..Len(rows) : rows[i].quote_id = id]

\* C23: of two overlapping calls of mark_quote_as_used on different
\* quote_ids, every one that has returned found its row's UPDATE applied
\* and kept: it returned True exactly if its row exists, that row is then
\* marked used with the call's date in the table, whatever the other call
\* did before, in between or after, and the rows neither call names are
\* unchanged; once both have returned True both rows are marked.
C23_NoMarkLost ==
    /\ \A c \in Connections :
          Returned_(c) =>
             /\ procs.c[c].ret = (procs.c[c].id \in RowIds(db.rows))
             /\ procs.c[c].ret =>
                   /\ RowOf(db.rows, procs.c[c].id).is_used_in_current_cycle = 1
                   /\ RowOf(db.rows, procs.c[c].id).last_used_date =
                         isoformat(procs.c[c].clock)
    /\ Len(db.rows) = Len(procs.before)
    /\ \A i \in 1..Len(db.rows) :
          (\A c \in Connections : db.rows[i].quote_id # procs.c[c].id) =>
              db.rows[i] = procs.before[i]

\* both returned True, and the second to execute had begun before the
\* first committed
C23_Witness ==
    \E c, o \in Connections :
        /\ c # o
        /\ Returned_(c) /\ procs.c[c].ret
        /\ Returned_(o) /\ procs.c[o].ret
        /\ procs.c[o].at.start < procs.c[c].at.commit
        /\ procs.c[c].at.commit < procs.c[o].at.exec
        /\ procs.c[c].clock # procs.c[o].clock
        /\ db.marked = {procs.c[c].id, procs.c[o].id}

\* ---------------------------------------------------------------------
\* SpecIngest: one call of ingest_quotes on a table that earlier
\* ingestions have built, with a list of quotes as read_quotes_from_csv
\* returns it (every quote has a quote_text and an author).
\* ---------------------------------------------------------------------

MaxIngest == 2

NewStats(quotes) ==
    [total |-> Len(quotes), inserted |-> 0, skipped |-> 0, errors |-> 0]

RECURSIVE ingest_loop(_, _, _, _)
ingest_loop(rows, quotes, dflt, stats) ==
    IF quotes = <<>> THEN [rows |-> rows, stats |-> stats]
    ELSE LET quote == quotes[1]
             r == add_quote(rows, quote.quote_text, quote.author,
                            quote.source, dflt)
         IN  IF r.exc # ""
             THEN ingest_loop(rows, Tail(quotes), dflt,
                              [stats EXCEPT !.errors = @ + 1])
             ELSE IF r.ret > 0
             THEN ingest_loop(r.rows, Tail(quotes), dflt,
                              [stats EXCEPT !.inserted = @ + 1])
             ELSE ingest_loop(r.rows, Tail(quotes), dflt,
                              [stats EXCEPT !.skipped = @ + 1])

ingest_quotes(rows, quotes, dflt) ==
    ingest_loop(rows, quotes, dflt, NewStats(quotes))

CsvQuotes ==
    {[quote_text |-> p[1], author |-> p[2], source |-> s] :
        p \in DbPairs, s \in DbSources}

IngestQuotes(quotes) ==
    /\ db.op.name = NoDbCall.name
    /\ LET r == ingest_quotes(db.rows, quotes, db.dflt) IN
       db' = [db EXCEPT !.rows = r.rows,
                        !.op = DbCall("ingest_quotes", quotes, db.rows,
                                       DbResult(r.rows, r.stats, ""))]
    /\ UNCHANGED <<file, now, pc, loadr, selr, updr, history, wf, procs>>

InitIngest ==
    /\ file = Unparsed("absent")
    /\ now = StartClock
    /\ pc = "api"
    /\ loadr = NoLoad
    /\ selr = NoSelect
    /\ updr = NoUpdate
    /\ history = <<>>
    /\ \E dflt \in UsedDefaults : \E rows \in RotTables(dflt) :
          db = [rows |-> rows, dflt |-> dflt, op |-> NoDbCall, marked |-> {}]
    /\ wf = NoWf
    /\ procs = NoProcs

NextIngest == \E quotes \in SeqsUpTo(CsvQuotes, MaxIngest) : IngestQuotes(quotes)

SpecIngest == InitIngest /\ [][NextIngest]_vars

\* C26: after ingest_quotes, stats['inserted'] is the number of rows the
\* call added to the table and stats['skipped'] the number of quotes whose
\* (quote_text, author) was already there.
C26_DuplicatesSkipped ==
    db.op.name = "ingest_quotes" =>
        /\ db.op.ret.inserted = Len(db.rows) - Len(db.op.before)
        /\ db.op.ret.skipped = db.op.ret.total - db.op.ret.inserted

\* C27: whenever update_quote_usage has returned False, for an invalid
\* argument, a missing or malformed document, a record not found or an I/O
\* error, the persisted document is what it was before the call.
C27_FalseLeavesDocument ==
    (updr.called /\ ~updr.ret) => file = updr.pre

\* p and q both selected a record, and q loaded the document after p did
\* and before p's usage update was written
CyclesOverlap(p, q) ==
    /\ p # q
    /\ procs.p[p].sel # None
    /\ procs.p[q].sel # None
    /\ procs.p[p].at.load < procs.p[q].at.load
    /\ \/ procs.p[p].at.write = 0
       \/ procs.p[q].at.load < procs.p[p].at.write

\* C28 as stated: two overlapping cycles on a store of at least two records
\* select two different records.
C28_OverlappingSelectDifferent ==
    \A p, q \in Invocations :
        (CyclesOverlap(p, q) /\ Len(procs.p[p].loaded) >= 2) =>
            procs.p[p].sel # procs.p[q].sel

\* C28: two overlapping cycles select from the same loaded document: each
\* selects a record whose timestamp is minimal in it, so they select the
\* same record whenever only one record has the minimal timestamp.
C28_OverlappingSelectFromSameDocument ==
    \A p, q \in Invocations :
        CyclesOverlap(p, q) =>
            LET l == procs.p[p].loaded
                least(i) == \A j \in DOMAIN l : l[i].ts <= l[j].ts IN
            /\ procs.p[q].loaded = l
            /\ least(procs.p[p].sel)
            /\ least(procs.p[q].sel)
            /\ Cardinality({i \in DOMAIN l : least(i)}) = 1 =>
                  procs.p[p].sel = procs.p[q].sel

\* both cycles succeeded on a store of two records and selected the same one
C28_Witness ==
    \E p, q \in Invocations :
        /\ CyclesOverlap(p, q)
        /\ Len(procs.p[p].loaded) >= 2
        /\ Succeeded(p)
        /\ Succeeded(q)
        /\ procs.p[p].sel = procs.p[q].sel
        /\ procs.p[p].loaded[1].ts # procs.p[p].loaded[2].ts

\* C29: also when several records of the document have the same
\* (text, author), a successful cycle raises the last_used_timestamp of the
\* very record select_quote returned: update_quote_usage writes at the
\* position of the selected record.
C29_MarksTheSelectedRecord ==
    (Marked /\ history # <<>>) => updr.idx = history[Len(history)].sel

\* C25: an exception raised at a step of main_workflow does not reach the
\* caller: it is caught and logged, main_workflow returns, and the failing
\* step is the last one executed (nothing is generated, embedded or
\* published after it).
C25_ExceptionsCaught ==
    wf.exc # "" =>
        /\ wf.pc = "done"
        /\ wf.out = "returned"
        /\ wf.calls # <<>>
        /\ wf.calls[Len(wf.calls)].name = wf.halt
        /\ wf.posted = 0

\* the second image cannot be decoded
C25_Witness ==
    /\ wf.exc = "UnidentifiedImageError"
    /\ wf.i = 1
    /\ wf.out = "returned"
    /\ wf.halt = "Image.open"
    /\ Len(wf.calls) = 7

\* ---------------------------------------------------------------------
\* SpecLive: the sequential cycle of Spec on a well-formed store, with the
\* recorder succeeding every time and the cycles running for ever.  The
\* steps of a cycle are always taken (weak fairness); random.choice gives
\* every record of the eligible set a positive probability, so a record
\* that is eligible again and again is chosen at some time (strong
\* fairness of every single choice).
\* ---------------------------------------------------------------------

MaxLiveRecords == 2

LiveFiles ==
    {Document("list", quotes) :
        quotes \in UNION {CycleLists(n) : n \in 1..MaxLiveRecords}}

SelectRecord(i) == Select /\ selr'.ret = i

RecordOk == \E d \in 0..MaxDelay : Record(d, "ok")

InitLive ==
    /\ file \in LiveFiles
    /\ now = StartClock
    /\ pc = "load"
    /\ loadr = NoLoad
    /\ selr = NoSelect
    /\ updr = NoUpdate
    /\ history = <<>>
    /\ db = NoDb
    /\ wf = NoWf
    /\ procs = NoProcs

NextLive ==
    \/ Tick
    \/ Load
    \/ Select
    \/ RecordOk

SpecLive ==
    /\ InitLive
    /\ [][NextLive]_vars
    /\ WF_vars(Tick)
    /\ WF_vars(Load)
    /\ WF_vars(RecordOk)
    /\ \A i \in 1..MaxLiveRecords : SF_vars(SelectRecord(i))

\* C24: while sequential cycles with a succeeding recorder keep running,
\* every record of the store is selected at some time, also when records
\* start with the same never-used value 0.
C24_EveryRecordEventuallySelected ==
    \A i \in 1..MaxLiveRecords :
        (i \in DOMAIN file.quotes) => <>(pc = "record" /\ selr.ret = i)

====
